---- MODULE Spec2Model ----
(***************************************************************************)
(* EcoSort points ledger and pickup-job state machine (db_manager.py).     *)
(*                                                                         *)
(* The persisted state is one SQLite database.  Every db_manager function  *)
(* opens its own connection, so calls issued by different browser sessions *)
(* interleave statement by statement.  SELECTs run outside a transaction   *)
(* and read the committed database; the first UPDATE/INSERT of a call      *)
(* opens a transaction and takes the database write lock, and its writes   *)
(* become visible to the other connections at commit.  A connection that   *)
(* is closed or dropped without commit is rolled back.                     *)
(*                                                                         *)
(* weight_kg is held in hundredths of a kilogram (the step of the          *)
(* collector's number input), so weight*10 is weight_kg/10 points.         *)
(***************************************************************************)
EXTENDS Integers, Sequences, FiniteSets, TLC

\* ------------------------------------------------------------------ bounds
\* calls issued over a run
MaxCalls == 4
\* rows of pickup_requests
MaxJobs == 1
\* units each catalog row still has in stock when the run starts: seed_data
\* fills 15 to 100 units, create_tables leaves a database that already has
\* users as it finds it, and redemptions only ever take units away
StockLeft == 1

\* the concurrent browser sessions, one connection per call each
Procs == {1, 2}
\* value of lock when no connection holds the write lock
NoLock == 0

\* ------------------------------------------------------- seeded database
\* users rows of seed_data, id = position (AUTOINCREMENT from 1)
SeedUsers ==
    << [username |-> "john",   role |-> "Resident",  assigned_zone |-> "NULL"],
       [username |-> "sarah",  role |-> "Resident",  assigned_zone |-> "NULL"],
       [username |-> "ali",    role |-> "Resident",  assigned_zone |-> "NULL"],
       [username |-> "fathul", role |-> "Collector", assigned_zone |-> "Zone A"],
       [username |-> "amir",   role |-> "Collector", assigned_zone |-> "Zone B"],
       [username |-> "afiq",   role |-> "Admin",     assigned_zone |-> "NULL"],
       [username |-> "min",    role |-> "Admin",     assigned_zone |-> "NULL"] >>

\* current_points every seeded profile starts with
SeedPoints == 50

\* the password every seeded user gets
SeedPassword == "123"

\* profiles_map of seed_data: full_name, address and zone by username
ProfilesMap(username) ==
    CASE username = "john"  -> [full_name |-> "John Doe",
                                address |-> "12 Jalan Teknokrat 3, Cyberjaya",
                                zone |-> "Zone A"]
      [] username = "sarah" -> [full_name |-> "Sarah Tan",
                                address |-> "45 Persiaran Multimedia, Cyberjaya",
                                zone |-> "Zone B"]
      [] username = "ali"   -> [full_name |-> "Ali bin Abu",
                                address |-> "88 Lingkaran Cyber Point, Cyberjaya",
                                zone |-> "Zone A"]

\* resident_profiles rows of seed_data: one per seeded Resident
SeedProfiles ==
    [ id \in { i \in 1..Len(SeedUsers) : SeedUsers[i].role = "Resident" } |->
        [ zone |-> ProfilesMap(SeedUsers[id].username).zone,
          current_points |-> SeedPoints ] ]

\* full_name, address and zone columns of the seeded resident_profiles rows
SeedDetails ==
    [ id \in DOMAIN SeedProfiles |-> ProfilesMap(SeedUsers[id].username) ]

\* rewards_catalog rows of seed_data, id = position
SeedRewards ==
    << [item_name |-> "GrabFood RM10 Voucher",     cost_points |-> 500],
       [item_name |-> "TGV Cinema Ticket",         cost_points |-> 800],
       [item_name |-> "Stainless Steel Straw Set", cost_points |-> 200],
       [item_name |-> "EcoSort T-Shirt",           cost_points |-> 1500],
       [item_name |-> "Netflix 1-Month Sub",       cost_points |-> 1200] >>

\* ------------------------------------------------------------ call inputs
\* usernames callers pass: two residents, a collector, an unregistered name
UsernameInputs == {"john", "sarah", "fathul", "nobody"}
\* item names callers pass: a catalog row and a name not in the catalog
ItemInputs == {"Stainless Steel Straw Set", "No Such Item"}
\* cost arguments callers pass: the catalog cost of the straw set, and others
CostInputs == {200, 50}
\* weights callers pass, in hundredths of a kg: 15.05 kg, 35.00 kg and -2.55 kg
\* (the collector page keeps its input at 0.1 or more, complete_job takes any)
WeightInputs == {1505, 3500, -255}
\* job ids callers pass
JobIdInputs == 1..MaxJobs
\* usernames and roles passed to register_user: a taken name and a new one
RegisterNameInputs == {"john", "dina"}
RegisterRoleInputs == {"Resident", "Collector"}
\* usernames and zone passed to update_employee_zone: a collector, a resident
ZoneNameInputs == {"fathul", "john"}
ZoneInputs == {"Zone B"}
\* password, address and zone the sign-up form passes with a new account
RegisterPasswordInputs == {"abc"}
RegisterAddressInputs == {"7 Jalan Impact, Cyberjaya"}
RegisterZoneInputs == {"Zone B"}
\* usernames and passwords typed into the login form
LoginNameInputs == {"john", "nobody"}
LoginPasswordInputs == {"123", "abc"}
\* profile form: a resident, a collector and an unregistered name; new values
ProfileNameInputs == {"john", "fathul", "nobody"}
FullNameInputs == {"Johnny Doe"}
AddressInputs == {"3 Jalan Fauna, Cyberjaya"}
\* password form
PasswordNameInputs == {"john"}
NewPasswordInputs == {"abc"}
\* driver_zone of get_pending_jobs: None (NULL assigned_zone), the zone of
\* john's profile, and the same name in lower case
DriverZoneInputs == {"NULL", "Zone A", "zone a"}
\* reason the collector page passes to report_issue
ReasonInputs == {"Access Blocked/Contaminated"}

NoRow == [none |-> TRUE]

VARIABLES
    db,        \* the committed database
    tx,        \* working copy of the connection holding the write lock
    lock,      \* connection holding the write lock, NoLock when free
    pc,        \* per connection: position in the running call, "idle" if none
    call,      \* per connection: the call and its arguments
    user,      \* per connection: row fetched by redeem_item's user check
    item,      \* per connection: row fetched by redeem_item's item check
    last,      \* the call that finished most recently, with its outcome
    calls      \* number of calls issued so far

vars == << db, tx, lock, pc, call, user, item, last, calls >>

\* ---------------------------------------------------------------- helpers
\* the lookup as it would be if it fell back to the first users row when no
\* username matches
UserIdOfElseFirst(d, username) ==
    IF \E i \in 1..Len(d.users) : d.users[i].username = username
    THEN CHOOSE i \in 1..Len(d.users) : d.users[i].username = username
    ELSE 1

\* SELECT id FROM users WHERE username=?  (0 when fetchone() is None)
UserIdOf(d, username) ==
    IF \E i \in 1..Len(d.users) : d.users[i].username = username
    THEN CHOOSE i \in 1..Len(d.users) : d.users[i].username = username
    ELSE 0

\* SELECT id FROM rewards_catalog WHERE item_name=?  (0 when no row)
ItemIdOf(d, item_name) ==
    IF \E i \in 1..Len(d.catalog) : d.catalog[i].item_name = item_name
    THEN CHOOSE i \in 1..Len(d.catalog) : d.catalog[i].item_name = item_name
    ELSE 0

\* int(x) of Python for the rational num/den, den > 0: truncation towards 0
IntTrunc(num, den) ==
    IF num >= 0 THEN num \div den ELSE -((-num) \div den)

\* points = int(weight * 10), weight in hundredths of a kg
PointsFor(weight) == IntTrunc(weight, 10)

\* hashlib.sha256(password.encode()).hexdigest(): one digest per password
HashPw(password) == "sha256:" \o password

\* f"Issue: {reason}"
IssueNote(reason) == "Issue: " \o reason

JobExists(d, job_id) == job_id \in 1..Len(d.jobs)

\* status of a job as a caller finds it listed, "absent" for an unknown id
StatusOf(d, job_id) == IF JobExists(d, job_id) THEN d.jobs[job_id].status ELSE "absent"

RECURSIVE SumSeq(_)
SumSeq(s) == IF s = << >> THEN 0 ELSE Head(s) + SumSeq(Tail(s))

\* a call is issued on an idle session
Issue(p) ==
    /\ pc[p] = "idle"
    /\ calls < MaxCalls
    /\ calls' = calls + 1

\* the call c of session p ends with outcome r; its locals die with it
Return(p, c, r) ==
    /\ pc' = [pc EXCEPT ![p] = "idle"]
    /\ call' = [call EXCEPT ![p] = NoRow]
    /\ user' = [user EXCEPT ![p] = NoRow]
    /\ item' = [item EXCEPT ![p] = NoRow]
    /\ last' = [call |-> c, result |-> r]

\* close() or drop of a connection without commit: its writes are discarded
Rollback(p) ==
    /\ lock' = IF lock = p THEN NoLock ELSE lock
    /\ tx' = IF lock = p THEN NoRow ELSE tx
    /\ UNCHANGED db

\* conn.commit(): the working copy becomes the committed database
Commit(p) ==
    /\ lock = p
    /\ db' = tx
    /\ tx' = NoRow
    /\ lock' = NoLock

\* ------------------------------------------------------------------- Init
Init ==
    /\ db = [ users  |-> SeedUsers,
              catalog |-> SeedRewards,
              jobs   |-> << >>,
              awards |-> << >>,
              points |-> [ id \in DOMAIN SeedProfiles |-> SeedProfiles[id].current_points ],
              stock  |-> [ i \in 1..Len(SeedRewards) |-> StockLeft ],
              logs   |-> << >>,
              password |-> [ i \in 1..Len(SeedUsers) |-> HashPw(SeedPassword) ],
              profiles |-> SeedDetails ]
    /\ tx = NoRow
    /\ lock = NoLock
    /\ pc = [p \in Procs |-> "idle"]
    /\ call = [p \in Procs |-> NoRow]
    /\ user = [p \in Procs |-> NoRow]
    /\ item = [p \in Procs |-> NoRow]
    /\ last = NoRow
    /\ calls = 0

\* ---------------------------------------------------------- register_user
\* register_user as it would be without the test of the role: a profile row
\* for every new user
RegisterUserProfileForAll(p, username, password, role, address, zone) ==
    /\ Issue(p)
    /\ LET c == [op |-> "register_user", username |-> username, role |-> role]
           user_id == Len(db.users) + 1
       IN  IF lock # NoLock
           THEN /\ UNCHANGED db
                /\ Return(p, c, "raised")
           ELSE IF UserIdOf(db, username) # 0
           THEN /\ UNCHANGED db
                /\ Return(p, c, "False")
           ELSE /\ db' = [db EXCEPT
                     !.users = Append(@, [username |-> username, role |-> role,
                                          assigned_zone |-> "NULL"]),
                     !.password = Append(@, HashPw(password)),
                     !.points = [ id \in DOMAIN @ \cup {user_id} |->
                                  IF id = user_id THEN 0 ELSE @[id] ],
                     !.profiles = [ id \in DOMAIN @ \cup {user_id} |->
                                    IF id = user_id
                                    THEN [full_name |-> "NULL",
                                          address |-> address, zone |-> zone]
                                    ELSE @[id] ]]
                /\ Return(p, c, "True")
    /\ UNCHANGED << tx, lock >>

\* INSERT INTO users; INSERT INTO resident_profiles if Resident; commit.
\* user_id is the PRIMARY KEY of resident_profiles (one row per id at most),
\* current_points takes its DEFAULT 0 and full_name is left NULL.
\* A taken username violates UNIQUE: IntegrityError is caught, False returned
\* and close() drops the transaction.  A lock timeout is not caught.
RegisterUser(p, username, password, role, address, zone) ==
    /\ Issue(p)
    /\ LET c == [op |-> "register_user", username |-> username, role |-> role]
           user_id == Len(db.users) + 1
       IN  IF lock # NoLock
           THEN /\ UNCHANGED db
                /\ Return(p, c, "raised")
           ELSE IF UserIdOf(db, username) # 0
           THEN /\ UNCHANGED db
                /\ Return(p, c, "False")
           ELSE /\ db' = [db EXCEPT
                     !.users = Append(@, [username |-> username, role |-> role,
                                          assigned_zone |-> "NULL"]),
                     !.password = Append(@, HashPw(password)),
                     !.points = IF role = "Resident"
                                THEN [ id \in DOMAIN @ \cup {user_id} |->
                                         IF id = user_id THEN 0 ELSE @[id] ]
                                ELSE @,
                     !.profiles = IF role = "Resident"
                                  THEN [ id \in DOMAIN @ \cup {user_id} |->
                                           IF id = user_id
                                           THEN [full_name |-> "NULL",
                                                 address |-> address, zone |-> zone]
                                           ELSE @[id] ]
                                  ELSE @]
                /\ Return(p, c, "True")
    /\ UNCHANGED << tx, lock >>

\* --------------------------------------------------- update_employee_zone
\* update_employee_zone as it would be without AND role='Collector'
UpdateEmployeeZoneAnyRole(p, username, new_zone) ==
    /\ Issue(p)
    /\ LET c == [op |-> "update_employee_zone", username |-> username,
                 new_zone |-> new_zone]
       IN  IF lock # NoLock
           THEN /\ UNCHANGED db
                /\ Return(p, c, "False")
           ELSE /\ db' = [db EXCEPT !.users =
                     [ i \in 1..Len(@) |->
                         IF @[i].username = username
                         THEN [@[i] EXCEPT !.assigned_zone = new_zone]
                         ELSE @[i] ]]
                /\ Return(p, c, "True")
    /\ UNCHANGED << tx, lock >>

\* UPDATE users SET assigned_zone=? WHERE username=? AND role='Collector';
\* commit; return True.  Any exception (a lock timeout) returns False.
UpdateEmployeeZone(p, username, new_zone) ==
    /\ Issue(p)
    /\ LET c == [op |-> "update_employee_zone", username |-> username,
                 new_zone |-> new_zone]
       IN  IF lock # NoLock
           THEN /\ UNCHANGED db
                /\ Return(p, c, "False")
           ELSE /\ db' = [db EXCEPT !.users =
                     [ i \in 1..Len(@) |->
                         IF @[i].username = username /\ @[i].role = "Collector"
                         THEN [@[i] EXCEPT !.assigned_zone = new_zone]
                         ELSE @[i] ]]
                /\ Return(p, c, "True")
    /\ UNCHANGED << tx, lock >>

\* -------------------------------------------------------- get_user_points
\* get_user_points as it would be if it fell back to the seed balance
GetUserPointsSeedDefault(p, username) ==
    /\ Issue(p)
    /\ LET uid == UserIdOf(db, username)
           c == [op |-> "get_user_points", username |-> username]
       IN  Return(p, c, IF uid # 0 /\ uid \in DOMAIN db.points
                        THEN db.points[uid] ELSE SeedPoints)
    /\ UNCHANGED << db, tx, lock >>

\* SELECT p.current_points FROM resident_profiles p JOIN users u ...;
\* return result['current_points'] if result else 0
GetUserPoints(p, username) ==
    /\ Issue(p)
    /\ LET uid == UserIdOf(db, username)
           c == [op |-> "get_user_points", username |-> username]
       IN  Return(p, c, IF uid # 0 /\ uid \in DOMAIN db.points
                        THEN db.points[uid] ELSE 0)
    /\ UNCHANGED << db, tx, lock >>

\* ------------------------------------------------------------ add_booking
\* add_booking as it would be if the INSERT wrote another initial status
AddBookingScheduled(p, username, notes) ==
    /\ Issue(p)
    /\ LET uid == UserIdOf(db, username)
           c == [op |-> "add_booking", username |-> username, notes |-> notes]
       IN  IF uid = 0
           THEN /\ UNCHANGED db
                /\ Return(p, c, "returned")
           ELSE IF lock # NoLock
           THEN /\ UNCHANGED db
                /\ Return(p, c, "raised")
           ELSE /\ Len(db.jobs) < MaxJobs
                /\ db' = [db EXCEPT
                     !.jobs = Append(@, [resident_id |-> uid, status |-> "Scheduled",
                                         weight_kg |-> 0, notes |-> notes]),
                     !.awards = Append(@, << >>)]
                /\ Return(p, c, "returned")
    /\ UNCHANGED << tx, lock >>

AddBooking(p, username, notes) ==
    /\ Issue(p)
    /\ LET uid == UserIdOf(db, username)
           c == [op |-> "add_booking", username |-> username, notes |-> notes]
       IN  IF uid = 0
           THEN /\ UNCHANGED db
                /\ Return(p, c, "returned")
           ELSE IF lock # NoLock
           THEN \* the INSERT times out on the write lock: OperationalError
                /\ UNCHANGED db
                /\ Return(p, c, "raised")
           ELSE /\ Len(db.jobs) < MaxJobs
                /\ db' = [db EXCEPT
                     !.jobs = Append(@, [resident_id |-> uid, status |-> "Pending",
                                         weight_kg |-> 0, notes |-> notes]),
                     !.awards = Append(@, << >>)]
                /\ Return(p, c, "returned")
    /\ UNCHANGED << tx, lock >>

\* ----------------------------------------------------------- report_issue
\* report_issue as it would be if the UPDATE set the status only
ReportIssueStatusOnly(p, job_id, reason) ==
    /\ Issue(p)
    /\ LET c == [op |-> "report_issue", job_id |-> job_id, reason |-> reason,
                 seen |-> StatusOf(db, job_id)]
       IN  IF lock # NoLock
           THEN /\ UNCHANGED db
                /\ Return(p, c, "raised")
           ELSE /\ db' = IF JobExists(db, job_id)
                         THEN [db EXCEPT !.jobs[job_id].status = "Failed"]
                         ELSE db
                /\ Return(p, c, "returned")
    /\ UNCHANGED << tx, lock >>

ReportIssue(p, job_id, reason) ==
    /\ Issue(p)
    /\ LET c == [op |-> "report_issue", job_id |-> job_id, reason |-> reason,
                 seen |-> StatusOf(db, job_id)]
       IN  IF lock # NoLock
           THEN \* the UPDATE times out on the write lock: OperationalError
                /\ UNCHANGED db
                /\ Return(p, c, "raised")
           ELSE /\ db' = IF JobExists(db, job_id)
                         THEN [db EXCEPT !.jobs[job_id].status = "Failed",
                                         !.jobs[job_id].notes = IssueNote(reason)]
                         ELSE db
                /\ Return(p, c, "returned")
    /\ UNCHANGED << tx, lock >>

\* ----------------------------------------------------------- complete_job
\* the collector presses LOAD: complete_job(job_id, weight) opens a connection
CompleteJobCall(p, job_id, weight) ==
    /\ Issue(p)
    /\ call' = [call EXCEPT ![p] =
                  [op |-> "complete_job", job_id |-> job_id, weight |-> weight,
                   seen |-> StatusOf(db, job_id)]]
    /\ pc' = [pc EXCEPT ![p] = "c_update"]
    /\ UNCHANGED << db, tx, lock, user, item, last >>

\* UPDATE pickup_requests SET status='Completed', weight_kg=? WHERE id=?
CompleteJobUpdate(p) ==
    /\ pc[p] = "c_update"
    /\ lock = NoLock
    /\ lock' = p
    /\ tx' = IF JobExists(db, call[p].job_id)
             THEN [db EXCEPT !.jobs[call[p].job_id].status = "Completed",
                             !.jobs[call[p].job_id].weight_kg = call[p].weight]
             ELSE db
    /\ pc' = [pc EXCEPT ![p] = "c_award"]
    /\ UNCHANGED << db, call, user, item, last, calls >>

\* SELECT resident_id ...; points = int(weight * 10); UPDATE resident_profiles
CompleteJobAward(p) ==
    /\ pc[p] = "c_award"
    /\ lock = p
    /\ LET job_id == call[p].job_id IN
         IF ~JobExists(tx, job_id)
         THEN \* fetchone() is None: TypeError leaves the function uncommitted
              /\ Rollback(p)
              /\ Return(p, call[p], "raised")
         ELSE LET res_id == tx.jobs[job_id].resident_id
                  points == PointsFor(call[p].weight)
              IN  /\ tx' = IF res_id \in DOMAIN tx.points
                           THEN [tx EXCEPT !.points[res_id] = @ + points,
                                           !.awards[job_id] = Append(@, points)]
                           ELSE tx
                  /\ pc' = [pc EXCEPT ![p] = "c_commit"]
                  /\ UNCHANGED << db, lock, call, user, item, last >>
    /\ UNCHANGED calls

\* conn.commit(); conn.close()
CompleteJobCommit(p) ==
    /\ pc[p] = "c_commit"
    /\ Commit(p)
    /\ Return(p, call[p], "returned")
    /\ UNCHANGED calls

\* a statement or the commit raises (sqlite3.OperationalError: the database
\* is locked by another connection, I/O error): nothing is committed
CompleteJobRaises(p) ==
    /\ \/ pc[p] = "c_update" /\ lock # NoLock
       \/ pc[p] \in {"c_award", "c_commit"}
    /\ Rollback(p)
    /\ Return(p, call[p], "raised")
    /\ UNCHANGED calls

\* ------------------------------------------------------------- login_user
\* SELECT id, username, role, assigned_zone FROM users WHERE username=? AND
\* password=?  with the digest of the password typed; fetchone()
LoginUser(p, username, password) ==
    /\ Issue(p)
    /\ LET uid == UserIdOf(db, username)
           c == [op |-> "login_user", username |-> username]
       IN  Return(p, c, IF uid # 0 /\ db.password[uid] = HashPw(password)
                        THEN [id |-> uid, username |-> db.users[uid].username,
                              role |-> db.users[uid].role,
                              assigned_zone |-> db.users[uid].assigned_zone]
                        ELSE NoRow)
    /\ UNCHANGED << db, tx, lock >>

\* -------------------------------------------------- update_resident_profile
\* update_resident_profile as it would be if it wrote the row anew with
\* INSERT OR REPLACE, current_points back at its DEFAULT 0
UpdateResidentProfileReplacingRow(p, username, full_name, address) ==
    /\ Issue(p)
    /\ LET uid == UserIdOf(db, username)
           c == [op |-> "update_resident_profile", username |-> username]
       IN  IF uid = 0
           THEN /\ UNCHANGED db
                /\ Return(p, c, "False")
           ELSE IF lock # NoLock
           THEN /\ UNCHANGED db
                /\ Return(p, c, "False")
           ELSE /\ db' = IF uid \in DOMAIN db.profiles
                         THEN [db EXCEPT !.profiles[uid].full_name = full_name,
                                         !.profiles[uid].address = address,
                                         !.points[uid] = 0]
                         ELSE db
                /\ Return(p, c, "True")
    /\ UNCHANGED << tx, lock >>

\* SELECT id FROM users WHERE username=?; if a row: UPDATE resident_profiles
\* SET full_name=?, address=? WHERE user_id=?; commit; True.  No users row, or
\* any exception (a lock timeout): False.
UpdateResidentProfile(p, username, full_name, address) ==
    /\ Issue(p)
    /\ LET uid == UserIdOf(db, username)
           c == [op |-> "update_resident_profile", username |-> username]
       IN  IF uid = 0
           THEN /\ UNCHANGED db
                /\ Return(p, c, "False")
           ELSE IF lock # NoLock
           THEN /\ UNCHANGED db
                /\ Return(p, c, "False")
           ELSE /\ db' = IF uid \in DOMAIN db.profiles
                         THEN [db EXCEPT !.profiles[uid].full_name = full_name,
                                         !.profiles[uid].address = address]
                         ELSE db
                /\ Return(p, c, "True")
    /\ UNCHANGED << tx, lock >>

\* -------------------------------------------------------- update_password
\* UPDATE users SET password=? WHERE username=?; commit; True.  Any exception
\* (a lock timeout): False.
UpdatePassword(p, username, new_password) ==
    /\ Issue(p)
    /\ LET c == [op |-> "update_password", username |-> username]
       IN  IF lock # NoLock
           THEN /\ UNCHANGED db
                /\ Return(p, c, "False")
           ELSE /\ db' = [db EXCEPT !.password =
                     [ i \in 1..Len(@) |->
                         IF db.users[i].username = username
                         THEN HashPw(new_password) ELSE @[i] ]]
                /\ Return(p, c, "True")
    /\ UNCHANGED << tx, lock >>

\* ------------------------------------------------- the read-only listings
\* if driver_zone: None (the NULL of users.assigned_zone) and '' are falsy
ZoneGiven(driver_zone) == driver_zone \notin {"NULL", ""}

\* rows of SELECT ... FROM pickup_requests r JOIN users u ON u.id =
\* r.resident_id JOIN resident_profiles p ON p.user_id = u.id WHERE r.status =
\* 'Pending' [AND p.zone = '<driver_zone>'], by r.id.  The zone condition is
\* added if driver_zone is truthy (not None, not ''); = on TEXT compares
\* byte for byte.
PendingJobs(d, driver_zone) ==
    { j \in 1..Len(d.jobs) :
        /\ d.jobs[j].resident_id \in 1..Len(d.users)
        /\ d.jobs[j].resident_id \in DOMAIN d.profiles
        /\ d.jobs[j].status = "Pending"
        /\ ZoneGiven(driver_zone)
           => d.profiles[d.jobs[j].resident_id].zone = driver_zone }

\* get_pending_jobs(driver_zone)
GetPendingJobs(p, driver_zone) ==
    /\ Issue(p)
    /\ Return(p, [op |-> "get_pending_jobs", driver_zone |-> driver_zone],
              PendingJobs(db, driver_zone))
    /\ UNCHANGED << db, tx, lock >>

\* get_resident_history(username): the requests of that user, by id
GetResidentHistory(p, username) ==
    /\ Issue(p)
    /\ Return(p, [op |-> "get_resident_history", username |-> username],
              { j \in 1..Len(db.jobs) :
                  db.jobs[j].resident_id = UserIdOf(db, username) })
    /\ UNCHANGED << db, tx, lock >>

\* get_resident_details(username): full_name, address, zone or None
GetResidentDetails(p, username) ==
    /\ Issue(p)
    /\ LET uid == UserIdOf(db, username)
       IN  Return(p, [op |-> "get_resident_details", username |-> username],
                  IF uid # 0 /\ uid \in DOMAIN db.profiles
                  THEN db.profiles[uid] ELSE NoRow)
    /\ UNCHANGED << db, tx, lock >>

\* get_all_users(): users LEFT JOIN resident_profiles, every user, by id
GetAllUsers(p) ==
    /\ Issue(p)
    /\ Return(p, [op |-> "get_all_users"], 1..Len(db.users))
    /\ UNCHANGED << db, tx, lock >>

\* get_all_bookings_admin(): pickup_requests JOIN users, by id
GetAllBookingsAdmin(p) ==
    /\ Issue(p)
    /\ Return(p, [op |-> "get_all_bookings_admin"],
              { j \in 1..Len(db.jobs) : db.jobs[j].resident_id \in 1..Len(db.users) })
    /\ UNCHANGED << db, tx, lock >>

\* get_rewards_list(): SELECT * FROM rewards_catalog WHERE stock_level > 0
GetRewardsList(p) ==
    /\ Issue(p)
    /\ Return(p, [op |-> "get_rewards_list"],
              { i \in 1..Len(db.catalog) : db.stock[i] > 0 })
    /\ UNCHANGED << db, tx, lock >>

\* ---------------------------------------------------- admin: FLUSH DATABASE
\* the reset as it would be if it ran DELETE FROM redemption_logs, a table
\* that exists
FlushDatabaseRedemptionLogs(p) ==
    /\ Issue(p)
    /\ IF lock # NoLock
       THEN /\ UNCHANGED db
            /\ Return(p, [op |-> "flush_database"], "raised")
       ELSE /\ db' = [db EXCEPT !.logs = << >>]
            /\ Return(p, [op |-> "flush_database"], "returned")
    /\ UNCHANGED << tx, lock >>

\* c.execute("DELETE FROM bookings"): create_tables makes no table of that
\* name (the rows are in pickup_requests), so the statement fails to compile
\* with sqlite3.OperationalError before anything is locked or written
FlushDatabase(p) ==
    /\ Issue(p)
    /\ Return(p, [op |-> "flush_database"], "raised")
    /\ UNCHANGED << db, tx, lock >>

\* ------------------------------------------------------------ redeem_item
\* redeem_item(username, item_name, cost), up to the user check
RedeemItemCall(p, username, item_name, cost) ==
    /\ Issue(p)
    /\ LET uid == UserIdOf(db, username)
           c == [op |-> "redeem_item", username |-> username,
                 item_name |-> item_name, cost |-> cost]
       IN  IF uid = 0 \/ uid \notin DOMAIN db.points
           THEN Return(p, c, "User not found")
           ELSE /\ call' = [call EXCEPT ![p] = c]
                /\ user' = [user EXCEPT ![p] =
                      [id |-> uid, current_points |-> db.points[uid]]]
                /\ pc' = [pc EXCEPT ![p] = "r_item"]
                /\ UNCHANGED << item, last >>
    /\ UNCHANGED << db, tx, lock >>

\* the checks as they would be with the points check ahead of the item check
RedeemItemCheckPointsFirst(p) ==
    /\ pc[p] = "r_item"
    /\ LET iid == ItemIdOf(db, call[p].item_name)
           row == IF iid = 0 THEN NoRow
                  ELSE [id |-> iid, stock_level |-> db.stock[iid]]
       IN  IF user[p].current_points < call[p].cost
           THEN Return(p, call[p], "Insufficient points")
           ELSE IF row = NoRow \/ row.stock_level < 1
           THEN Return(p, call[p], "Out of stock")
           ELSE /\ item' = [item EXCEPT ![p] = row]
                /\ pc' = [pc EXCEPT ![p] = "r_points"]
                /\ UNCHANGED << call, user, last >>
    /\ UNCHANGED << db, tx, lock, calls >>

\* the item check and the points check
RedeemItemCheck(p) ==
    /\ pc[p] = "r_item"
    /\ LET iid == ItemIdOf(db, call[p].item_name)
           row == IF iid = 0 THEN NoRow
                  ELSE [id |-> iid, stock_level |-> db.stock[iid]]
       IN  IF row = NoRow \/ row.stock_level < 1
           THEN Return(p, call[p], "Out of stock")
           ELSE IF user[p].current_points < call[p].cost
           THEN Return(p, call[p], "Insufficient points")
           ELSE /\ item' = [item EXCEPT ![p] = row]
                /\ pc' = [pc EXCEPT ![p] = "r_points"]
                /\ UNCHANGED << call, user, last >>
    /\ UNCHANGED << db, tx, lock, calls >>

\* UPDATE resident_profiles SET current_points = current_points - ?
RedeemItemDebit(p) ==
    /\ pc[p] = "r_points"
    /\ lock = NoLock
    /\ lock' = p
    /\ tx' = [db EXCEPT !.points[user[p].id] = @ - call[p].cost]
    /\ pc' = [pc EXCEPT ![p] = "r_stock"]
    /\ UNCHANGED << db, call, user, item, last, calls >>

\* the stock update as it would be if it stored the stock_level that the item
\* check had read, less one
RedeemItemStockFromRead(p) ==
    /\ pc[p] = "r_stock"
    /\ lock = p
    /\ tx' = [tx EXCEPT !.stock[item[p].id] = item[p].stock_level - 1]
    /\ pc' = [pc EXCEPT ![p] = "r_log"]
    /\ UNCHANGED << db, lock, call, user, item, last, calls >>

\* UPDATE rewards_catalog SET stock_level = stock_level - 1
RedeemItemStock(p) ==
    /\ pc[p] = "r_stock"
    /\ lock = p
    /\ tx' = [tx EXCEPT !.stock[item[p].id] = @ - 1]
    /\ pc' = [pc EXCEPT ![p] = "r_log"]
    /\ UNCHANGED << db, lock, call, user, item, last, calls >>

\* INSERT INTO redemption_logs (resident_id, item_id, points_spent)
RedeemItemLog(p) ==
    /\ pc[p] = "r_log"
    /\ lock = p
    /\ tx' = [tx EXCEPT !.logs = Append(@, [resident_id |-> user[p].id,
                                            item_id |-> item[p].id,
                                            points_spent |-> call[p].cost])]
    /\ pc' = [pc EXCEPT ![p] = "r_commit"]
    /\ UNCHANGED << db, lock, call, user, item, last, calls >>

\* conn.commit(); return True, f"CODE-{...}"
RedeemItemCommit(p) ==
    /\ pc[p] = "r_commit"
    /\ Commit(p)
    /\ Return(p, call[p], "CODE")
    /\ UNCHANGED calls

\* the failure path as it would be if the handler committed what the
\* transaction had written so far before closing
RedeemItemFailsKeepingWrites(p) ==
    /\ \/ pc[p] = "r_points" /\ lock # NoLock
       \/ pc[p] \in {"r_stock", "r_log", "r_commit"}
    /\ lock' = IF lock = p THEN NoLock ELSE lock
    /\ tx' = IF lock = p THEN NoRow ELSE tx
    /\ db' = IF lock = p THEN tx ELSE db
    /\ Return(p, call[p], IF lock = p THEN "error" ELSE "database is locked")
    /\ UNCHANGED calls

\* except Exception: return False, str(e); finally: conn.close()
RedeemItemFails(p) ==
    /\ \/ pc[p] = "r_points" /\ lock # NoLock
       \/ pc[p] \in {"r_stock", "r_log", "r_commit"}
    /\ Rollback(p)
    /\ Return(p, call[p], IF lock = p THEN "error" ELSE "database is locked")
    /\ UNCHANGED calls

\* ------------------------------------------------------------------- Next
\* the ledger and job operations, over the wide inputs
Next ==
    \/ \E p \in Procs, u \in UsernameInputs : AddBooking(p, u, "")
    \/ \E p \in Procs, j \in JobIdInputs, r \in ReasonInputs : ReportIssue(p, j, r)
    \/ \E p \in Procs, j \in JobIdInputs, w \in WeightInputs : CompleteJobCall(p, j, w)
    \/ \E p \in Procs : CompleteJobUpdate(p)
    \/ \E p \in Procs : CompleteJobAward(p)
    \/ \E p \in Procs : CompleteJobCommit(p)
    \/ \E p \in Procs : CompleteJobRaises(p)
    \/ \E p \in Procs, u \in UsernameInputs, i \in ItemInputs, c \in CostInputs :
          RedeemItemCall(p, u, i, c)
    \/ \E p \in Procs : RedeemItemCheck(p)
    \/ \E p \in Procs : RedeemItemDebit(p)
    \/ \E p \in Procs : RedeemItemStock(p)
    \/ \E p \in Procs : RedeemItemLog(p)
    \/ \E p \in Procs : RedeemItemCommit(p)
    \/ \E p \in Procs : RedeemItemFails(p)

Spec == Init /\ [][Next]_vars

\* ------------------------------------------- every operation side by side
\* inputs of the ledger and job calls when all operations run together: a
\* resident, a collector and an unregistered name, one weight, one reward at
\* its price
AllOpsNames == {"john", "fathul", "nobody"}
AllOpsWeights == {1505}
AllOpsItems == {"Stainless Steel Straw Set"}
AllOpsCosts == {200}

\* every operation of db_manager.py modelled here and the admin reset
AllOpsNext ==
    \/ \E p \in Procs, u \in LoginNameInputs, w \in LoginPasswordInputs :
          LoginUser(p, u, w)
    \/ \E p \in Procs, u \in ProfileNameInputs, n \in FullNameInputs,
          a \in AddressInputs :
          UpdateResidentProfile(p, u, n, a)
    \/ \E p \in Procs, u \in PasswordNameInputs, w \in NewPasswordInputs :
          UpdatePassword(p, u, w)
    \/ \E p \in Procs, z \in DriverZoneInputs : GetPendingJobs(p, z)
    \/ \E p \in Procs, u \in AllOpsNames : GetResidentHistory(p, u)
    \/ \E p \in Procs, u \in AllOpsNames : GetResidentDetails(p, u)
    \/ \E p \in Procs : GetAllUsers(p)
    \/ \E p \in Procs : GetAllBookingsAdmin(p)
    \/ \E p \in Procs : GetRewardsList(p)
    \/ \E p \in Procs, u \in RegisterNameInputs, w \in RegisterPasswordInputs,
          r \in RegisterRoleInputs, a \in RegisterAddressInputs,
          z \in RegisterZoneInputs :
          RegisterUser(p, u, w, r, a, z)
    \/ \E p \in Procs, u \in ZoneNameInputs, z \in ZoneInputs :
          UpdateEmployeeZone(p, u, z)
    \/ \E p \in Procs, u \in UsernameInputs \cup RegisterNameInputs :
          GetUserPoints(p, u)
    \/ \E p \in Procs, u \in AllOpsNames : AddBooking(p, u, "")
    \/ \E p \in Procs, j \in JobIdInputs, r \in ReasonInputs : ReportIssue(p, j, r)
    \/ \E p \in Procs, j \in JobIdInputs, w \in AllOpsWeights :
          CompleteJobCall(p, j, w)
    \/ \E p \in Procs : CompleteJobUpdate(p)
    \/ \E p \in Procs : CompleteJobAward(p)
    \/ \E p \in Procs : CompleteJobCommit(p)
    \/ \E p \in Procs : CompleteJobRaises(p)
    \/ \E p \in Procs : FlushDatabase(p)
    \/ \E p \in Procs, u \in AllOpsNames, i \in AllOpsItems, c \in AllOpsCosts :
          RedeemItemCall(p, u, i, c)
    \/ \E p \in Procs : RedeemItemCheck(p)
    \/ \E p \in Procs : RedeemItemDebit(p)
    \/ \E p \in Procs : RedeemItemStock(p)
    \/ \E p \in Procs : RedeemItemLog(p)
    \/ \E p \in Procs : RedeemItemCommit(p)
    \/ \E p \in Procs : RedeemItemFails(p)

AllOpsSpec == Init /\ [][AllOpsNext]_vars

\* ------------------------------------------------ the john scenario (sec. 8)
\* the database the scenario starts from: john at 0 points, one reward of
\* cost 25 with 1 unit in stock, no pickup request yet
ScenarioInit ==
    /\ db = [ users  |-> SeedUsers,
              catalog |-> << [item_name |-> "Eco Voucher", cost_points |-> 25] >>,
              jobs   |-> << >>,
              awards |-> << >>,
              points |-> [ id \in DOMAIN SeedProfiles |->
                             IF SeedUsers[id].username = "john" THEN 0
                             ELSE SeedProfiles[id].current_points ],
              stock  |-> << 1 >>,
              logs   |-> << >>,
              password |-> [ i \in 1..Len(SeedUsers) |-> HashPw(SeedPassword) ],
              profiles |-> SeedDetails ]
    /\ tx = NoRow
    /\ lock = NoLock
    /\ pc = [p \in Procs |-> "idle"]
    /\ call = [p \in Procs |-> NoRow]
    /\ user = [p \in Procs |-> NoRow]
    /\ item = [p \in Procs |-> NoRow]
    /\ last = NoRow
    /\ calls = 0

\* the calls of the scenario: john books, 2.50 kg is loaded, the reward is
\* claimed at its catalog price
ScenarioNames == {"john"}
ScenarioWeights == {250}
ScenarioItems == {"Eco Voucher"}
ScenarioCosts == {25}

ScenarioNext ==
    \/ \E p \in Procs, u \in RegisterNameInputs, w \in RegisterPasswordInputs,
          r \in RegisterRoleInputs, a \in RegisterAddressInputs,
          z \in RegisterZoneInputs :
          RegisterUser(p, u, w, r, a, z)
    \/ \E p \in Procs, u \in ZoneNameInputs, z \in ZoneInputs :
          UpdateEmployeeZone(p, u, z)
    \/ \E p \in Procs, u \in ScenarioNames : GetUserPoints(p, u)
    \/ \E p \in Procs, u \in ScenarioNames : AddBooking(p, u, "")
    \/ \E p \in Procs, j \in JobIdInputs, r \in ReasonInputs : ReportIssue(p, j, r)
    \/ \E p \in Procs, j \in JobIdInputs, w \in ScenarioWeights :
          CompleteJobCall(p, j, w)
    \/ \E p \in Procs : CompleteJobUpdate(p)
    \/ \E p \in Procs : CompleteJobAward(p)
    \/ \E p \in Procs : CompleteJobCommit(p)
    \/ \E p \in Procs : CompleteJobRaises(p)
    \/ \E p \in Procs : FlushDatabase(p)
    \/ \E p \in Procs, u \in ScenarioNames, i \in ScenarioItems, c \in ScenarioCosts :
          RedeemItemCall(p, u, i, c)
    \/ \E p \in Procs : RedeemItemCheck(p)
    \/ \E p \in Procs : RedeemItemDebit(p)
    \/ \E p \in Procs : RedeemItemStock(p)
    \/ \E p \in Procs : RedeemItemLog(p)
    \/ \E p \in Procs : RedeemItemCommit(p)
    \/ \E p \in Procs : RedeemItemFails(p)

ScenarioSpec == ScenarioInit /\ [][ScenarioNext]_vars

TypeOK ==
    /\ lock \in Procs \cup {NoLock}
    /\ calls \in 0..MaxCalls
    /\ (lock = NoLock) <=> (tx = NoRow)

\* ================================================================ claims
Terminal == {"Completed", "Failed"}

RedeemPcs == {"r_item", "r_points", "r_stock", "r_log", "r_commit"}

\* this step ends a call: last' holds the call and its outcome
Returns ==
    \/ \E p \in Procs : pc[p] # "idle" /\ pc'[p] = "idle"
    \/ calls' = calls + 1 /\ pc' = pc

\* the error kind of the specification that an outcome of redeem_item stands for
ErrorKind(r) ==
    CASE r = "User not found"      -> "NotFoundError"
      [] r = "Out of stock"        -> "OutOfStockError"
      [] r = "Insufficient points" -> "InsufficientPointsError"
      [] OTHER                     -> "none"

\* C1: in every reachable state every resident profile's current_points is >= 0,
\* whatever the interleaving of complete_job and redeem_item calls.
C1_PointsNeverNegative ==
    \A id \in DOMAIN db.points : db.points[id] >= 0

\* C2: a job (of a resident with a balance) is Completed exactly when the credit
\* floor(weight_kg*10) has been applied for it: Completed with exactly that
\* amount credited, not Completed with nothing credited.
C2_CompletedIffCredited ==
    \A j \in 1..Len(db.jobs) :
        db.jobs[j].resident_id \in DOMAIN db.points =>
            IF db.jobs[j].status = "Completed"
            THEN SumSeq(db.awards[j]) = PointsFor(db.jobs[j].weight_kg)
            ELSE SumSeq(db.awards[j]) = 0

\* C3: each pickup request triggers at most one ledger credit, and the points
\* credited on its account never exceed floor(weight_kg*10) of its weight.
C3_AtMostOneCredit ==
    \A j \in 1..Len(db.jobs) :
        /\ Len(db.awards[j]) <= 1
        /\ \A k \in 1..Len(db.awards[j]) :
              db.awards[j][k] <= PointsFor(db.jobs[j].weight_kg)

\* C4: no transition leaves a terminal state: once a job is Completed or Failed
\* no step changes its status, weight_kg or notes.
C4_TerminalIsFinal ==
    [][ \A j \in 1..Len(db.jobs) :
          db.jobs[j].status \in Terminal => db'.jobs[j] = db.jobs[j] ]_vars

\* C5: a complete_job or report_issue call issued on a job that is already
\* Completed or Failed ends with InvalidStateError and leaves the database
\* (job rows and balances) as it was.
C5_SecondCallRejected ==
    [][ ( /\ Returns
          /\ last'.call.op \in {"complete_job", "report_issue"}
          /\ last'.call.seen \in Terminal )
        => /\ last'.result = "InvalidStateError"
           /\ db' = db ]_vars

\* C6: of two overlapping complete_job calls issued on the same Pending job with
\* different weights, the one that comes second finds the job Completed by the
\* other, gets InvalidStateError and changes nothing: one weight recorded, one
\* credit.
C6_ConcurrentCompleteOnce ==
    [][ \A p \in Procs :
          ( /\ pc[p] = "c_commit" /\ pc'[p] = "idle"
            /\ call[p].seen = "Pending"
            /\ db.jobs[call[p].job_id].status = "Completed"
            /\ db.jobs[call[p].job_id].weight_kg # call[p].weight )
          => /\ last'.result = "InvalidStateError"
             /\ db' = db ]_vars

\* C7: of two overlapping redemptions of the last unit of an item, each by a
\* resident who can afford it at the catalog price, only one succeeds: a
\* redemption that went for the last unit succeeds only if the unit is still
\* there, so stock ends at 0 with one log row.
C7_LastUnitRedeemedOnce ==
    [][ \A p \in Procs :
          ( /\ pc[p] = "r_commit" /\ pc'[p] = "idle"
            /\ last'.result = "CODE"
            /\ item[p].stock_level = 1
            /\ call[p].cost = db.catalog[item[p].id].cost_points
            /\ db.points[user[p].id] >= call[p].cost
            /\ \A k \in 1..Len(db.logs) :
                  db.logs[k].points_spent = db.catalog[db.logs[k].item_id].cost_points )
          => db.stock[item[p].id] = 1 ]_vars

\* C8: redemption is all-or-nothing: a redeem_item call that does not succeed
\* (insufficient points, out of stock, unknown user, or a statement or the
\* commit failing after earlier writes) leaves balances, stock and the
\* redemption log unchanged, and no step of a redemption before its commit
\* changes the committed database.
C8_RedeemAllOrNothing ==
    [][ /\ ( Returns /\ last'.call.op = "redeem_item" /\ last'.result # "CODE" )
           => ( /\ db'.points = db.points
                /\ db'.stock = db.stock
                /\ db'.logs = db.logs )
        /\ \A p \in Procs :
             ( pc[p] \in RedeemPcs /\ pc'[p] \in RedeemPcs /\ pc'[p] # pc[p] )
             => db' = db ]_vars

\* C8 witness: a redemption failed after it had written, and one was refused
\* for insufficient points, with nothing of either in the database
C8_Witness ==
    /\ last # NoRow
    /\ last.call.op = "redeem_item"
    /\ last.result = "error"
    /\ db.logs = << >>

\* C9: a successful redemption takes the catalog item's cost_points off the
\* resident's points whatever cost the caller passes, takes 1 off the item's
\* stock_level and appends one log row with points_spent = that cost.
C9_DebitsCatalogCost ==
    [][ \A p \in Procs :
          ( pc[p] = "r_commit" /\ pc'[p] = "idle" /\ last'.result = "CODE" )
          => LET uid == user[p].id
                 iid == item[p].id
                 cost_points == db.catalog[iid].cost_points
             IN  /\ db'.points[uid] = db.points[uid] - cost_points
                 /\ db'.stock[iid] = db.stock[iid] - 1
                 /\ db'.logs = Append(db.logs, [resident_id |-> uid, item_id |-> iid,
                                                points_spent |-> cost_points]) ]_vars

\* C10: redeem_item checks (a) resident exists, (b) item exists, (c) stock_level
\* >= 1, (d) points >= cost_points in this order and reports the first that
\* fails: NotFoundError for an unknown resident or item, OutOfStockError for
\* zero stock, InsufficientPointsError for too few points.  (Stated for the
\* calls that pass the catalog price, as the rewards page does.)
C10_FirstFailingCheck ==
    [][ /\ ( Returns /\ last'.call.op = "redeem_item"
             /\ ErrorKind(last'.result) # "none" /\ calls' # calls )
           => ( /\ last'.result = "User not found"
                /\ LET uid == UserIdOf(db, last'.call.username)
                   IN  uid = 0 \/ uid \notin DOMAIN db.points )
        /\ \A p \in Procs :
             ( pc[p] = "r_item" /\ pc'[p] # "r_item" )
             => LET iid == ItemIdOf(db, call[p].item_name) IN
                  IF iid = 0
                  THEN pc'[p] = "idle" /\ ErrorKind(last'.result) = "NotFoundError"
                  ELSE IF db.stock[iid] < 1
                  THEN pc'[p] = "idle" /\ ErrorKind(last'.result) = "OutOfStockError"
                  ELSE IF call[p].cost # db.catalog[iid].cost_points
                  THEN TRUE
                  ELSE IF user[p].current_points < db.catalog[iid].cost_points
                  THEN pc'[p] = "idle"
                       /\ ErrorKind(last'.result) = "InsufficientPointsError"
                  ELSE pc'[p] = "r_points" ]_vars

\* C11: in every reachable state a pickup request has weight_kg > 0 exactly
\* when its status is Completed.
C11_WeightIffCompleted ==
    \A j \in 1..Len(db.jobs) :
        (db.jobs[j].weight_kg > 0) <=> (db.jobs[j].status = "Completed")

\* C12: report_issue(job_id, reason) on a Pending job sets that job's status to
\* Failed and stores the reason in its notes (as "Issue: <reason>"), and has no
\* ledger effect: balances, stock, credits, the redemption log, the job's other
\* columns and every other job are unchanged; it raises only when the write
\* lock is held by another connection, and then changes nothing.
C12_ReportIssueEffect ==
    [][ ( Returns /\ last'.call.op = "report_issue" /\ last'.call.seen = "Pending" )
        => LET j == last'.call.job_id IN
             IF last'.result = "returned"
             THEN /\ db'.jobs = [db.jobs EXCEPT
                                   ![j].status = "Failed",
                                   ![j].notes = IssueNote(last'.call.reason)]
                  /\ db'.points = db.points
                  /\ db'.stock = db.stock
                  /\ db'.awards = db.awards
                  /\ db'.logs = db.logs
                  /\ db'.users = db.users
             ELSE lock # NoLock /\ db' = db ]_vars

\* C12 witness: a report_issue call on a Pending job has returned and the job
\* is Failed with the issue note
C12_Witness ==
    /\ last # NoRow
    /\ last.call.op = "report_issue"
    /\ last.call.seen = "Pending"
    /\ last.result = "returned"
    /\ db.jobs[last.call.job_id].status = "Failed"
    /\ db.jobs[last.call.job_id].notes = "Issue: Access Blocked/Contaminated"

\* C13: get_user_points returns the stored current_points of the resident with
\* that username, returns 0 for a username that is not registered or has no
\* resident profile, and changes nothing.
C13_BalanceOrZero ==
    [][ ( Returns /\ last'.call.op = "get_user_points" )
        => /\ UNCHANGED << db, tx, lock >>
           /\ LET u == last'.call.username
                  rows == { i \in DOMAIN db.points : db.users[i].username = u }
              IN  IF rows = {}
                  THEN last'.result = 0
                  ELSE \A i \in rows : last'.result = db.points[i] ]_vars

\* C13 witness: the balance of an unregistered username and of a collector has
\* been asked for and 0 came back
C13_Witness ==
    /\ last # NoRow
    /\ last.call.op = "get_user_points"
    /\ last.call.username \in {"nobody", "fathul"}
    /\ last.result = 0

\* C14: add_booking for the username of a registered resident succeeds and adds
\* exactly one pickup request, Pending with weight_kg = 0, for that resident;
\* every existing job, every balance, the stock and the log are unchanged.  It
\* raises only when the write lock is held by another connection, and then
\* adds nothing.
C14_CreateAddsOnePending ==
    [][ ( /\ Returns
          /\ last'.call.op = "add_booking"
          /\ \E i \in 1..Len(db.users) :
                db.users[i].username = last'.call.username
                /\ db.users[i].role = "Resident" )
        => IF last'.result = "returned"
           THEN /\ Len(db'.jobs) = Len(db.jobs) + 1
                /\ SubSeq(db'.jobs, 1, Len(db.jobs)) = db.jobs
                /\ LET row == db'.jobs[Len(db'.jobs)] IN
                     /\ row.status = "Pending"
                     /\ row.weight_kg = 0
                     /\ db.users[row.resident_id].username = last'.call.username
                     /\ row.notes = last'.call.notes
                /\ db'.points = db.points
                /\ db'.stock = db.stock
                /\ db'.logs = db.logs
                /\ db'.users = db.users
           ELSE lock # NoLock /\ db' = db ]_vars

\* C14 witness: a booking of john has been added and is the last row, Pending
\* with weight 0
C14_Witness ==
    /\ last # NoRow
    /\ last.call.op = "add_booking"
    /\ last.call.username = "john"
    /\ last.result = "returned"
    /\ Len(db.jobs) >= 1
    /\ db.jobs[Len(db.jobs)].status = "Pending"
    /\ db.jobs[Len(db.jobs)].weight_kg = 0

\* C15: complete_job and report_issue called with a job_id that does not exist
\* fail with an error (NotFoundError) and leave jobs and balances unchanged.
\* Any raised error is accepted here as the failure.
C15_UnknownJobRejected ==
    [][ ( /\ Returns
          /\ last'.call.op \in {"complete_job", "report_issue"}
          /\ ~JobExists(db, last'.call.job_id) )
        => /\ last'.result # "returned"
           /\ db' = db ]_vars

\* C16: complete_job rejects a weight_kg that is zero or negative with an error
\* (ValidationError), leaving the job and every balance unchanged, and no call
\* ever credits a negative amount.
C16_NonPositiveWeightRejected ==
    [][ /\ ( /\ Returns
             /\ last'.call.op = "complete_job"
             /\ last'.call.weight <= 0 )
           => ( last'.result # "returned" /\ db' = db )
        /\ \A j \in 1..Len(db'.awards) :
             \A k \in 1..Len(db'.awards[j]) : db'.awards[j][k] >= 0 ]_vars

\* C18: in every reachable state every reward item's stock_level is >= 0,
\* whatever the interleaving of redemptions.
C18_StockNeverNegative ==
    \A i \in DOMAIN db.stock : db.stock[i] >= 0

\* C19: the admin full reset removes every pickup request: after it has run
\* there is no row in pickup_requests, while balances, stock and the
\* redemption log are unchanged.
C19_ResetClearsRequests ==
    [][ ( Returns /\ last'.call.op = "flush_database" )
        => /\ db'.jobs = << >>
           /\ db'.points = db.points
           /\ db'.stock = db.stock
           /\ db'.logs = db.logs ]_vars

\* C20: a user's role never changes after registration (and no user row is
\* removed or renamed), and update_employee_zone changes assigned_zone only of
\* users whose role is Collector: called with the username of a Resident or an
\* Admin, or an unknown name, it leaves every user row unchanged, and no other
\* operation changes an assigned_zone.
C20_RoleFixedZoneCollectorOnly ==
    [][ /\ Len(db'.users) >= Len(db.users)
        /\ \A i \in 1..Len(db.users) :
             /\ db'.users[i].role = db.users[i].role
             /\ db'.users[i].username = db.users[i].username
             /\ db'.users[i].assigned_zone # db.users[i].assigned_zone
                => /\ db.users[i].role = "Collector"
                   /\ Returns
                   /\ last'.call.op = "update_employee_zone"
                   /\ last'.call.username = db.users[i].username
                   /\ db'.users[i].assigned_zone = last'.call.new_zone
        /\ ( /\ Returns
             /\ last'.call.op = "update_employee_zone"
             /\ ~\E i \in 1..Len(db.users) :
                   /\ db.users[i].username = last'.call.username
                   /\ db.users[i].role = "Collector" )
           => db' = db ]_vars

\* C20 witness: the zone of collector fathul has been reassigned, and a
\* reassignment aimed at resident john has returned without touching john
C20_Witness ==
    /\ last # NoRow
    /\ last.call.op = "update_employee_zone"
    /\ last.call.username = "john"
    /\ last.result = "True"
    /\ db.users[UserIdOf(db, "john")].assigned_zone = "NULL"
    /\ db.users[UserIdOf(db, "fathul")].assigned_zone = "Zone B"

\* C17: the scenario.  john (id 1) has 0 points and a Pending job: completing
\* the job with 2.50 kg makes the balance 25; with balance 25 and stock 1 the
\* redemption of the 25-point reward passes both checks and, committed, leaves
\* stock 0 and balance 0; a redemption that then finds stock 0 fails with
\* "Out of stock" and the balance stays 0.
C17_Scenario ==
    [][ \A p \in Procs :
          /\ ( /\ pc[p] = "c_commit" /\ pc'[p] = "idle"
               /\ last'.result = "returned"
               /\ call[p].weight = 250
               /\ db.jobs[call[p].job_id].status = "Pending"
               /\ db.jobs[call[p].job_id].resident_id = 1
               /\ db.points[1] = 0 )
             => ( /\ db'.points[1] = 25
                  /\ db'.jobs[call[p].job_id].status = "Completed" )
          /\ ( /\ pc[p] = "r_item"
               /\ user[p].id = 1 /\ user[p].current_points = 25
               /\ db.stock[1] = 1 )
             => ( pc'[p] \in {"r_item", "r_points"} )
          /\ ( /\ pc[p] = "r_commit" /\ pc'[p] = "idle"
               /\ last'.result = "CODE"
               /\ user[p].id = 1
               /\ db.points[1] = 25 /\ db.stock[1] = 1 )
             => ( db'.points[1] = 0 /\ db'.stock[1] = 0 )
          /\ ( /\ pc[p] = "r_item" /\ pc'[p] = "idle"
               /\ user[p].id = 1
               /\ db.points[1] = 0 /\ db.stock[1] = 0 )
             => ( /\ last'.result = "Out of stock"
                  /\ db' = db ) ]_vars

\* C17 witness: the end of the scenario: the job is Completed with 2.50 kg, one
\* redemption of 25 points is logged, stock and balance are 0 and the second
\* redemption has just been refused as out of stock
C17_Witness ==
    /\ last # NoRow
    /\ last.call.op = "redeem_item"
    /\ last.call.username = "john"
    /\ last.result = "Out of stock"
    /\ db.jobs = << [resident_id |-> 1, status |-> "Completed",
                     weight_kg |-> 250, notes |-> ""] >>
    /\ db.logs = << [resident_id |-> 1, item_id |-> 1, points_spent |-> 25] >>
    /\ db.points[1] = 0
    /\ db.stock[1] = 0

\* C21: the redemption log is append-only: no step modifies or removes an
\* existing redemption_logs row, and a row is added only by a redeem_item call
\* that succeeds, one row per call.
C21_LogAppendOnly ==
    [][ /\ Len(db'.logs) >= Len(db.logs)
        /\ SubSeq(db'.logs, 1, Len(db.logs)) = db.logs
        /\ db'.logs # db.logs
           => /\ Returns
              /\ last'.call.op = "redeem_item"
              /\ last'.result = "CODE"
              /\ Len(db'.logs) = Len(db.logs) + 1 ]_vars

\* C21 witness: a redemption has been logged and a later call of another
\* operation has finished with the row still in place
C21_Witness ==
    /\ last # NoRow
    /\ last.call.op # "redeem_item"
    /\ Len(db.logs) = 1
    /\ db.logs[1].points_spent = 200

\* the operations that may change points, stock or a job's status
LedgerOps == {"complete_job", "report_issue", "redeem_item"}

\* registration, login, profile edit, password change, zone reassignment and
\* the read and list operations
OtherOps ==
    {"register_user", "login_user", "update_resident_profile", "update_password",
     "update_employee_zone", "get_user_points", "get_pending_jobs",
     "get_resident_history", "get_resident_details", "get_all_users",
     "get_all_bookings_admin", "get_rewards_list"}

\* every balance, every stock level and every job status of d is the same in e
SameLedger(d, e) ==
    /\ \A id \in DOMAIN d.points : id \in DOMAIN e.points /\ e.points[id] = d.points[id]
    /\ e.stock = d.stock
    /\ Len(e.jobs) >= Len(d.jobs)
    /\ \A j \in 1..Len(d.jobs) : e.jobs[j].status = d.jobs[j].status

\* C22: only complete_job, report_issue and redeem_item change points, stock or
\* job status: a step that changes a balance, a stock level or the status of a
\* job is the end of one of these calls, and register_user, login_user,
\* update_resident_profile, update_password, update_employee_zone and every
\* read or list operation leave all balances, stock levels and job statuses
\* (and the number of jobs) as they were.
C22_OnlyLedgerOpsMutate ==
    [][ /\ ~SameLedger(db, db')
           => ( Returns /\ last'.call.op \in LedgerOps )
        /\ ( Returns /\ last'.call.op \in OtherOps )
           => ( SameLedger(db, db') /\ Len(db'.jobs) = Len(db.jobs) ) ]_vars

\* C22 witness: john's profile has been edited after a completion had credited
\* him: the new name is stored and the balance is still the credited one
C22_Witness ==
    /\ last # NoRow
    /\ last.call.op = "update_resident_profile"
    /\ last.call.username = "john"
    /\ last.result = "True"
    /\ db.profiles[1].full_name = "Johnny Doe"
    /\ db.points[1] = 200
    /\ db.jobs[1].status = "Completed"

\* C23: get_pending_jobs returns exactly the pickup requests whose status is
\* Pending (every Pending one, no Completed or Failed one) and, when a zone is
\* given, exactly those of them whose requester's profile zone is that zone,
\* compared case-sensitively.
C23_PendingListing ==
    [][ ( Returns /\ last'.call.op = "get_pending_jobs" )
        => last'.result =
             { j \in 1..Len(db.jobs) :
                 /\ db.jobs[j].status = "Pending"
                 /\ ZoneGiven(last'.call.driver_zone)
                    => /\ db.jobs[j].resident_id \in DOMAIN db.profiles
                       /\ db.profiles[db.jobs[j].resident_id].zone
                            = last'.call.driver_zone } ]_vars

\* every Resident has a profile row with a balance, nobody else has one
OneProfilePerResident(d) ==
    /\ DOMAIN d.profiles = { i \in 1..Len(d.users) : d.users[i].role = "Resident" }
    /\ DOMAIN d.points = DOMAIN d.profiles

\* C24: in every state every user whose role is Resident has its one
\* resident_profiles row and no Collector or Admin has one; a register_user call
\* that succeeds adds one user row and, for a Resident, one profile at 0 points;
\* a register_user call with a username already in use returns False and adds
\* neither a user row nor a profile row (while the write lock is held by
\* another connection it raises instead, adding nothing).
C24_ProfileIffResident ==
    [][ /\ OneProfilePerResident(db)
        /\ OneProfilePerResident(db')
        /\ ( Returns /\ last'.call.op = "register_user" )
           => IF UserIdOf(db, last'.call.username) # 0
              THEN /\ db' = db
                   /\ \/ last'.result = "False"
                      \/ last'.result = "raised" /\ lock # NoLock
              ELSE IF last'.result = "True"
              THEN /\ Len(db'.users) = Len(db.users) + 1
                   /\ SubSeq(db'.users, 1, Len(db.users)) = db.users
                   /\ db'.users[Len(db'.users)].username = last'.call.username
                   /\ db'.users[Len(db'.users)].role = last'.call.role
                   /\ last'.call.role = "Resident"
                      => db'.points[Len(db'.users)] = 0
              ELSE /\ db' = db
                   /\ last'.result = "raised" /\ lock # NoLock ]_vars

\* C24 witness: dina has registered as a Resident and has her profile at 0
\* points, and a second registration under her name has been refused
C24_Witness ==
    /\ last # NoRow
    /\ last.call.op = "register_user"
    /\ last.call.username = "dina"
    /\ last.result = "False"
    /\ Len(db.users) = Len(SeedUsers) + 1
    /\ db.users[Len(db.users)].role = "Resident"
    /\ db.points[Len(db.users)] = 0
    /\ db.profiles[Len(db.users)].zone = "Zone B"

\* the balance a profile starts with: 50 for the seeded rows, the DEFAULT 0 of
\* current_points for the rows register_user inserts
InitialPoints(id) == IF id \in DOMAIN SeedProfiles THEN SeedPoints ELSE 0

\* int(weight_kg*10) summed over the jobs of resident id that are Completed
CompletedCredit(d, id) ==
    SumSeq([ j \in 1..Len(d.jobs) |->
               IF d.jobs[j].resident_id = id /\ d.jobs[j].status = "Completed"
               THEN PointsFor(d.jobs[j].weight_kg) ELSE 0 ])

\* points_spent summed over the redemption_logs rows of resident id
PointsSpent(d, id) ==
    SumSeq([ k \in 1..Len(d.logs) |->
               IF d.logs[k].resident_id = id THEN d.logs[k].points_spent ELSE 0 ])

\* C25: ledger conservation: in every reachable state each resident's balance
\* equals the initial balance plus the sum of floor(weight_kg*10) over the
\* resident's jobs that are Completed now, minus the sum of points_spent over
\* the resident's redemption log rows.
C25_LedgerConservation ==
    \A id \in DOMAIN db.points :
        db.points[id] = InitialPoints(id) + CompletedCredit(db, id) - PointsSpent(db, id)

\* the stock_level a catalog row has when the run starts
InitialStock(i) == StockLeft

\* C26: stock conservation: in every reachable state, for each reward item, the
\* initial stock_level less the current stock_level is the number of
\* redemption_logs rows of that item, also when redemptions overlap.
C26_StockConservation ==
    \A i \in DOMAIN db.stock :
        InitialStock(i) - db.stock[i]
          = Cardinality({ k \in 1..Len(db.logs) : db.logs[k].item_id = i })

\* C26 witness: two overlapping redemptions of the straw set have both been
\* committed: two log rows, two units gone
C26_Witness ==
    /\ Len(db.logs) = 2
    /\ db.logs[1].item_id = 3 /\ db.logs[2].item_id = 3
    /\ db.logs[1].resident_id # db.logs[2].resident_id
    /\ db.stock[3] = StockLeft - 2

\* C27: add_booking called with a username that is not in the users table
\* returns without raising, creates no pickup request and leaves the whole
\* state (database, pending transaction, write lock) unchanged.
C27_UnknownUserNoBooking ==
    [][ ( /\ Returns
          /\ last'.call.op = "add_booking"
          /\ ~\E i \in 1..Len(db.users) : db.users[i].username = last'.call.username )
        => /\ last'.result = "returned"
           /\ db' = db
           /\ UNCHANGED << tx, lock >> ]_vars

\* C27 witness: add_booking for the unregistered name has returned while
\* another connection was in the middle of a transaction; no job was added
C27_Witness ==
    /\ last # NoRow
    /\ last.call.op = "add_booking"
    /\ last.call.username = "nobody"
    /\ last.result = "returned"
    /\ lock # NoLock
    /\ db.jobs = << >>

====
